---- MODULE Spec2Model ----
(***************************************************************************)
(* Model of lavis/runners/runner_iter.py: RunnerIter, the iteration-based  *)
(* training runner.  Every distributed worker process constructs its own   *)
(* RunnerIter from the same run configuration and calls train().  The      *)
(* delegated calls (task.train_iters, eval_epoch, torch.save, dist.barrier,*)
(* evaluate) are the steps of the model; the result of eval_epoch is an    *)
(* input chosen nondeterministically at every call.                        *)
(***************************************************************************)
EXTENDS Integers, Sequences, FiniteSets, TLC

(* ----------------------------- bounds ---------------------------------- *)
\* largest configured max_iters
MaxIters == 2
\* largest configured iters_per_inner_epoch
MaxIpe == 2
\* longest configured list of validation splits
MaxSplits == 2
\* largest aggregate metric a validation may report (smallest is 0)
MaxMetric == 1

\* the ranks of the run: the main process (rank 0) and one other worker;
\* workers run the same code and meet only at the barrier
Procs == {0, 1}
SplitNames == {"val", "test"}
Metrics == 0 .. MaxMetric

(* --------------------- run configuration values ------------------------ *)
\* A numeric entry of run_cfg is either absent or a number; numbers are kept
\* in half units so that a fractional setting (0.5) can be told from 0.
CfgEntry(present, halves) == [present |-> present, halves |-> halves]

\* the settings tried for a numeric entry whose largest integer value is n:
\* absent, every integer -1..n, and the fractions -1/2 and 1/2
CfgEntries(n) ==
    {CfgEntry(FALSE, 0)} \cup
    {CfgEntry(TRUE, h) : h \in {k \in (-2) .. (2 * n) : k % 2 = 0 \/ k \in {-1, 1}}}

\* run_cfg.get(key, default): the entry's value, or the default when absent
cfg_get(entry, default) == IF entry.present THEN entry.halves ELSE 2 * default

\* Python int(x): truncation toward zero (argument in half units)
py_int(halves) == IF halves >= 0 THEN halves \div 2 ELSE -((-halves) \div 2)

\* all lists of split names of length 0..MaxSplits
SplitLists == UNION {[1 .. n -> SplitNames] : n \in 0 .. MaxSplits}

(* ------------------------- validation logs ----------------------------- *)
\* val_log as returned by eval_epoch: None, or a dict that may or may not
\* carry "agg_metrics"; train() later adds "best_iters" to it.
NoneLog ==
    [is_none |-> TRUE, has_agg |-> FALSE, agg_metrics |-> 0,
     has_best_iters |-> FALSE, best_iters |-> 0]

DictLog(has_agg, m) ==
    [is_none |-> FALSE, has_agg |-> has_agg, agg_metrics |-> m,
     has_best_iters |-> FALSE, best_iters |-> 0]

EvalResults ==
    {NoneLog, DictLog(FALSE, 0)} \cup {DictLog(TRUE, m) : m \in Metrics}

(* ---------------------------- data loaders ----------------------------- *)
\* largest configured batch size
MaxBatch == 2
\* largest configured num_workers
MaxWorkers == 1
\* most accesses of the dataloaders property followed
MaxAccesses == 3

\* the split names a dataset may be registered under, in sorted() order
NameOrder == <<"test", "train", "val">>
DatasetNames == {NameOrder[i] : i \in DOMAIN NameOrder}

\* sorted(self.datasets.keys())
sorted_keys(keys) == SelectSeq(NameOrder, LAMBDA n : n \in keys)

\* DataLoader(dataset, batch_size=..., num_workers=..., pin_memory=True)
DataLoader(dataset, batch_size, num_workers) ==
    [dataset |-> dataset, batch_size |-> batch_size,
     num_workers |-> num_workers, pin_memory |-> TRUE]

\* create_pipeline_loader: one loader per element of the zip of its lists
create_pipeline_loader(dsets, batch_size, num_workers) ==
    LET Min(a, b) == IF a < b THEN a ELSE b
        n == Min(Len(dsets), Min(Len(batch_size), Len(num_workers)))
    IN  [i \in 1 .. n |-> DataLoader(dsets[i], batch_size[i], num_workers[i])]

\* the loader state of a runner before the property is first read;
\* self._dataloaders is None
LoaderState(use_datapipe, keys, bs_train, bs_eval, workers) ==
    [use_datapipe |-> use_datapipe, datasets |-> keys,
     batch_size_train |-> bs_train, batch_size_eval |-> bs_eval,
     num_workers |-> workers,
     is_none |-> TRUE, dataloaders |-> {}, created |-> <<>>,
     accesses |-> 0, returned |-> "nothing"]

\* the loader state while only train() is followed
NoLoaders == LoaderState(FALSE, {}, 1, 1, 0)

(* ------------------------------ state ---------------------------------- *)
VARIABLES
    run_cfg,                \* the shared run configuration
    pc,                     \* per process: position in __init__ / train()
    max_iters,              \* per process: self.max_iters
    iters_per_inner_epoch,  \* per process: self.iters_per_inner_epoch
    start_iters,            \* per process: loop variable of train()
    split_idx,              \* per process: position in self.valid_splits
    best_agg_metric,        \* per process: local of train()
    best_iters,             \* per process: local of train()
    val_log,                \* per process: local of train()
    saved,                  \* the torch.save calls made so far, in order
    log,                    \* per process: calls made in the current pass
    passes,                 \* per process: loop passes begun
    trained,                \* per process: train_iters calls made
    barriers,               \* per process: dist.barrier() calls made
    evals,                  \* per process: evaluate() calls made
    valTop,                 \* per process: the largest "val" metric read at line 92 so far, if any
    loaders                 \* one runner's datasets, loader settings and self._dataloaders

vars ==
    <<run_cfg, pc, max_iters, iters_per_inner_epoch, start_iters, split_idx,
      best_agg_metric, best_iters, val_log, saved, log, passes, trained,
      barriers, evals, valTop, loaders>>

evaluate_only == run_cfg.evaluate_only
valid_splits == run_cfg.valid_splits

\* one delegated call, as recorded in log
Call(op, split, iters, best) ==
    [op |-> op, split |-> split, iters |-> iters, best |-> best]

Init ==
    /\ run_cfg \in
         [max_iters : CfgEntries(MaxIters),
          iters_per_inner_epoch : CfgEntries(MaxIpe),
          evaluate_only : BOOLEAN,
          valid_splits : SplitLists]
    /\ pc = [p \in Procs |-> "new"]
    /\ max_iters = [p \in Procs |-> 0]
    /\ iters_per_inner_epoch = [p \in Procs |-> 0]
    /\ start_iters = [p \in Procs |-> 0]
    /\ split_idx = [p \in Procs |-> 1]
    /\ best_agg_metric = [p \in Procs |-> 0]
    /\ best_iters = [p \in Procs |-> 0]
    /\ val_log = [p \in Procs |-> NoneLog]
    /\ saved = <<>>
    /\ log = [p \in Procs |-> <<>>]
    /\ passes = [p \in Procs |-> 0]
    /\ trained = [p \in Procs |-> 0]
    /\ barriers = [p \in Procs |-> 0]
    /\ evals = [p \in Procs |-> 0]
    /\ valTop = [p \in Procs |-> {}]
    /\ loaders = NoLoaders

(* ---------------------------- __init__ --------------------------------- *)
\* variant: the assertion written with >= in place of >
non_negative(n) == n >= 0

\* the assertion guarding each iteration setting
positive(n) == n > 0

\* RunnerIter.__init__: max_iters is read and asserted first; the second
\* setting is only read when the first assertion passed.
Construct(p) ==
    /\ pc[p] = "new"
    /\ LET mi == py_int(cfg_get(run_cfg.max_iters, -1))
           ipe == py_int(cfg_get(run_cfg.iters_per_inner_epoch, -1))
       IN  /\ max_iters' = [max_iters EXCEPT ![p] = mi]
           /\ IF ~positive(mi)
              THEN /\ pc' = [pc EXCEPT ![p] = "ctor_failed"]
                   /\ UNCHANGED iters_per_inner_epoch
              ELSE /\ iters_per_inner_epoch' =
                         [iters_per_inner_epoch EXCEPT ![p] = ipe]
                   /\ pc' = [pc EXCEPT ![p] =
                               IF positive(ipe) THEN "ready" ELSE "ctor_failed"]
    /\ UNCHANGED <<loaders, run_cfg, start_iters, split_idx, best_agg_metric,
                   best_iters, val_log, saved, log, passes, trained,
                   barriers, evals, valTop, loaders>>

\* the max_epoch property: int(max_iters / iters_per_inner_epoch); for the
\* positive operands the constructor admits, truncation is the floor
max_epoch(p) == max_iters[p] \div iters_per_inner_epoch[p]

(* --------------------------- collaborators ----------------------------- *)
\* rank 0 is the designated main process
is_main_process(p) == p = 0

\* variant: save_checkpoint without the @main_process decorator
save_checkpoint_undecorated(p, cur_iters, is_best) ==
    Append(saved, [iters |-> cur_iters, is_best |-> is_best, rank |-> p])

\* save_checkpoint under its @main_process decorator: the list of torch.save
\* calls after process p invokes it; a no-op on every process but the main
save_checkpoint(p, cur_iters, is_best) ==
    IF is_main_process(p)
    THEN Append(saved, [iters |-> cur_iters, is_best |-> is_best, rank |-> p])
    ELSE saved

\* variant: the file name built from the iteration count alone
save_to_iters_only(cur_iters, is_best) ==
    "checkpoint_" \o ToString(cur_iters) \o ".pth"

\* lines 171-174: the file name (within output_dir) that save_checkpoint
\* writes to
save_to(cur_iters, is_best) ==
    "checkpoint_" \o (IF is_best THEN "best" ELSE ToString(cur_iters)) \o ".pth"

\* variant: the test of line 93 naming the wrong split
is_new_best_on_test(agg_metrics, best, split_name) ==
    agg_metrics > best /\ split_name = "test"

\* variant: end_iters without the inner-epoch width
end_iters_unadvanced(p) == start_iters[p]

\* end_iters of the pass in progress (line 65)
end_iters(p) == start_iters[p] + iters_per_inner_epoch[p]

\* variant: range taken to include its stop value
in_range_inclusive(i, stop) == i <= stop

\* range(0, stop, step) yields the candidate i iff it is below stop
in_range(i, stop) == i < stop

(* ------------------------------ train() -------------------------------- *)
\* lines 59-62: entry of train(), the best-metric locals are reset
TrainEnter(p) ==
    /\ pc[p] = "ready"
    /\ best_agg_metric' = [best_agg_metric EXCEPT ![p] = 0]
    /\ best_iters' = [best_iters EXCEPT ![p] = 0]
    /\ pc' = [pc EXCEPT ![p] = "for"]
    /\ UNCHANGED <<loaders, run_cfg, max_iters, iters_per_inner_epoch, start_iters,
                   split_idx, val_log, saved, log, passes, trained, barriers,
                   evals, valTop>>

\* lines 64-79: the for statement takes the next element of
\* range(0, max_iters, iters_per_inner_epoch) or leaves the loop; a pass
\* starts with the training phase (skipped in evaluate-only mode) and then
\* branches on len(self.valid_splits)
ForNext(p) ==
    /\ pc[p] = "for"
    /\ LET next == IF passes[p] = 0 THEN 0 ELSE end_iters(p)
       IN  IF in_range(next, max_iters[p])
           THEN /\ start_iters' = [start_iters EXCEPT ![p] = next]
                /\ passes' = [passes EXCEPT ![p] = @ + 1]
                /\ trained' = [trained EXCEPT ![p] =
                      IF evaluate_only THEN @ ELSE @ + 1]
                /\ log' = [log EXCEPT ![p] =
                      IF evaluate_only THEN <<>>
                      ELSE <<Call("train_iters", "-", next, FALSE)>>]
                /\ split_idx' = [split_idx EXCEPT ![p] = 1]
                /\ pc' = [pc EXCEPT ![p] =
                      IF Len(valid_splits) > 0 THEN "validating"
                      ELSE "no_split"]
           ELSE /\ pc' = [pc EXCEPT ![p] = "testing"]
                /\ UNCHANGED <<start_iters, passes, trained, log, split_idx>>
    /\ UNCHANGED <<loaders, run_cfg, max_iters, iters_per_inner_epoch,
                   best_agg_metric, best_iters, val_log, saved, barriers,
                   evals, valTop>>

\* variant: the test of line 93 without the split name
is_new_best_any_split(agg_metrics, best, split_name) ==
    agg_metrics > best

\* variant: the test of line 93 with >= in place of >
is_new_best_or_equal(agg_metrics, best, split_name) ==
    agg_metrics >= best /\ split_name = "val"

\* the test of line 93
is_new_best(agg_metrics, best, split_name) ==
    agg_metrics > best /\ split_name = "val"

\* variant: dist.barrier() placed before the evaluate-only break
EndOfPassBarrierFirst(p, calls) ==
    /\ pc' = [pc EXCEPT ![p] = IF evaluate_only THEN "testing" ELSE "barrier"]
    /\ barriers' = [barriers EXCEPT ![p] = @ + 1]
    /\ log' = [log EXCEPT ![p] =
          Append(calls, Call("barrier", "-", end_iters(p), FALSE))]

\* lines 106-108, the end of a pass: break in evaluate-only mode, otherwise
\* enter dist.barrier().  calls is the pass's log so far.
EndOfPass(p, calls) ==
    IF evaluate_only
    THEN /\ pc' = [pc EXCEPT ![p] = "testing"]
         /\ log' = [log EXCEPT ![p] = calls]
         /\ UNCHANGED barriers
    ELSE /\ pc' = [pc EXCEPT ![p] = "barrier"]
         /\ barriers' = [barriers EXCEPT ![p] = @ + 1]
         /\ log' = [log EXCEPT ![p] =
               Append(calls, Call("barrier", "-", end_iters(p), FALSE))]

\* lines 80-99: one pass of the loop over valid_splits: eval_epoch returns
\* result, which is then handled; after the last split the pass ends
EvalEpoch(p) ==
    /\ pc[p] = "validating"
    /\ \E result \in EvalResults :
         LET split_name == valid_splits[split_idx[p]]
             called == Append(log[p],
                         Call("eval_epoch", split_name, end_iters(p), FALSE))
             handled == ~result.is_none /\ is_main_process(p)
             better == /\ handled
                       /\ result.has_agg
                       /\ is_new_best(result.agg_metrics, best_agg_metric[p],
                                      split_name)
             new_best_iters == IF better THEN end_iters(p) ELSE best_iters[p]
             calls == IF better
                      THEN Append(called,
                             Call("save_checkpoint", "-", end_iters(p), TRUE))
                      ELSE called
             new_top == /\ handled /\ result.has_agg
                        /\ split_name = "val"
                        /\ \A m \in valTop[p] : result.agg_metrics > m
         IN  /\ valTop' = [valTop EXCEPT ![p] =
                   IF new_top THEN {result.agg_metrics} ELSE @]
             /\ IF handled /\ ~result.has_agg
                THEN \* the assertion of lines 88-90 fails
                     /\ pc' = [pc EXCEPT ![p] = "failed"]
                     /\ val_log' = [val_log EXCEPT ![p] = result]
                     /\ log' = [log EXCEPT ![p] = called]
                     /\ UNCHANGED <<split_idx, best_agg_metric, best_iters,
                                    saved, barriers>>
                ELSE /\ split_idx' = [split_idx EXCEPT ![p] = @ + 1]
                     /\ best_iters' = [best_iters EXCEPT ![p] = new_best_iters]
                     /\ best_agg_metric' = [best_agg_metric EXCEPT ![p] =
                           IF better THEN result.agg_metrics ELSE @]
                     /\ saved' = IF better
                                 THEN save_checkpoint(p, end_iters(p), TRUE)
                                 ELSE saved
                     /\ val_log' = [val_log EXCEPT ![p] =
                           IF handled
                           THEN [result EXCEPT !.has_best_iters = TRUE,
                                               !.best_iters = new_best_iters]
                           ELSE result]
                     /\ IF split_idx[p] < Len(valid_splits)
                        THEN /\ log' = [log EXCEPT ![p] = calls]
                             /\ UNCHANGED <<pc, barriers>>
                        ELSE EndOfPass(p, calls)
    /\ UNCHANGED <<loaders, run_cfg, max_iters, iters_per_inner_epoch, start_iters,
                   passes, trained, evals>>

\* variant: the checkpoint of lines 101-104 saved without testing
\* evaluate_only
NoSplitCheckpointAlways(p) ==
    /\ pc[p] = "no_split"
    /\ saved' = save_checkpoint(p, end_iters(p), FALSE)
    /\ EndOfPass(p, Append(log[p],
          Call("save_checkpoint", "-", end_iters(p), FALSE)))
    /\ UNCHANGED <<loaders, run_cfg, max_iters, iters_per_inner_epoch, start_iters,
                   split_idx, best_agg_metric, best_iters, val_log, passes,
                   trained, evals, valTop>>

\* lines 101-108: no validation split is configured; the checkpoint of the
\* inner epoch is saved unless in evaluate-only mode, and the pass ends
NoSplitCheckpoint(p) ==
    /\ pc[p] = "no_split"
    /\ IF ~evaluate_only
       THEN /\ saved' = save_checkpoint(p, end_iters(p), FALSE)
            /\ EndOfPass(p, Append(log[p],
                  Call("save_checkpoint", "-", end_iters(p), FALSE)))
       ELSE /\ UNCHANGED saved
            /\ EndOfPass(p, log[p])
    /\ UNCHANGED <<loaders, run_cfg, max_iters, iters_per_inner_epoch, start_iters,
                   split_idx, best_agg_metric, best_iters, val_log, passes,
                   trained, evals, valTop>>

\* variant: the testing phase indented into the loop body, so that
\* evaluate() runs each time the barrier returns
BarrierReturnEvaluating(p) ==
    /\ pc[p] = "barrier"
    /\ \A q \in Procs : barriers[q] >= barriers[p]
    /\ evals' = [evals EXCEPT ![p] = @ + 1]
    /\ log' = [log EXCEPT ![p] =
          Append(@, Call("evaluate", "-", start_iters[p], FALSE))]
    /\ pc' = [pc EXCEPT ![p] = "for"]
    /\ UNCHANGED <<loaders, run_cfg, max_iters, iters_per_inner_epoch, start_iters,
                   split_idx, best_agg_metric, best_iters, val_log, saved,
                   passes, trained, barriers, valTop>>

\* line 108: dist.barrier() returns once every process has entered it as
\* often as this one
BarrierReturn(p) ==
    /\ pc[p] = "barrier"
    /\ \A q \in Procs : barriers[q] >= barriers[p]
    /\ pc' = [pc EXCEPT ![p] = "for"]
    /\ UNCHANGED <<loaders, run_cfg, max_iters, iters_per_inner_epoch, start_iters,
                   split_idx, best_agg_metric, best_iters, val_log, saved,
                   log, passes, trained, barriers, evals, valTop>>

\* lines 110-115: the testing phase, then train() returns
Evaluate(p) ==
    /\ pc[p] = "testing"
    /\ evals' = [evals EXCEPT ![p] = @ + 1]
    /\ log' = [log EXCEPT ![p] =
          Append(@, Call("evaluate", "-", start_iters[p], FALSE))]
    /\ pc' = [pc EXCEPT ![p] = "done"]
    /\ UNCHANGED <<loaders, run_cfg, max_iters, iters_per_inner_epoch, start_iters,
                   split_idx, best_agg_metric, best_iters, val_log, saved,
                   passes, trained, barriers, valTop>>

Step(p) ==
    \/ Construct(p)
    \/ TrainEnter(p)
    \/ ForNext(p)
    \/ EvalEpoch(p)
    \/ NoSplitCheckpoint(p)
    \/ BarrierReturn(p)
    \/ Evaluate(p)

Next == \E p \in Procs : Step(p)

Spec == Init /\ [][Next]_vars

\* train() under the scheduling of the run: while some process can take a
\* step, a step is eventually taken
FairSpec == Spec /\ WF_vars(Next)

(* ----------------------- the dataloaders property ---------------------- *)
\* variant: the loaders rebuilt on every access
always_build(l) == TRUE

\* line 140: self._dataloaders is None
needs_build(l) == l.is_none

\* lines 149-151: the batch size chosen for a split
batch_size_for(l, split) ==
    IF split = "train" THEN l.batch_size_train ELSE l.batch_size_eval

\* lines 133-161: one read of the dataloaders property.  The value returned
\* is self._dataloaders ("pipeline") or that of the base class ("base").
AccessDataloaders ==
    /\ loaders.accesses < MaxAccesses
    /\ IF loaders.use_datapipe
       THEN IF needs_build(loaders)
            THEN LET split_names == sorted_keys(loaders.datasets)
                     n == Len(split_names)
                     built == create_pipeline_loader(
                                  split_names,
                                  [i \in 1 .. n |->
                                      batch_size_for(loaders, split_names[i])],
                                  [i \in 1 .. n |-> loaders.num_workers])
                 IN  loaders' =
                       [loaders EXCEPT
                          !.is_none = FALSE,
                          !.dataloaders =
                              {<<split_names[i], built[i]>> : i \in 1 .. n},
                          !.created = @ \o built,
                          !.accesses = @ + 1,
                          !.returned = "pipeline"]
            ELSE loaders' = [loaders EXCEPT !.accesses = @ + 1,
                                            !.returned = "pipeline"]
       ELSE loaders' = [loaders EXCEPT !.accesses = @ + 1,
                                       !.returned = "base"]
    /\ UNCHANGED <<run_cfg, pc, max_iters, iters_per_inner_epoch, start_iters,
                   split_idx, best_agg_metric, best_iters, val_log, saved,
                   log, passes, trained, barriers, evals, valTop>>

\* a runner whose dataloaders property is read; train() is not followed
LoaderInit ==
    /\ run_cfg = [max_iters |-> CfgEntry(TRUE, 2),
                  iters_per_inner_epoch |-> CfgEntry(TRUE, 2),
                  evaluate_only |-> FALSE, valid_splits |-> <<>>]
    /\ pc = [p \in Procs |-> "new"]
    /\ max_iters = [p \in Procs |-> 0]
    /\ iters_per_inner_epoch = [p \in Procs |-> 0]
    /\ start_iters = [p \in Procs |-> 0]
    /\ split_idx = [p \in Procs |-> 1]
    /\ best_agg_metric = [p \in Procs |-> 0]
    /\ best_iters = [p \in Procs |-> 0]
    /\ val_log = [p \in Procs |-> NoneLog]
    /\ saved = <<>>
    /\ log = [p \in Procs |-> <<>>]
    /\ passes = [p \in Procs |-> 0]
    /\ trained = [p \in Procs |-> 0]
    /\ barriers = [p \in Procs |-> 0]
    /\ evals = [p \in Procs |-> 0]
    /\ valTop = [p \in Procs |-> {}]
    /\ \E use_datapipe \in BOOLEAN, keys \in SUBSET DatasetNames,
          bs_train \in 1 .. MaxBatch, bs_eval \in 1 .. MaxBatch,
          workers \in 0 .. MaxWorkers :
          loaders = LoaderState(use_datapipe, keys, bs_train, bs_eval, workers)

LoaderNext == AccessDataloaders

LoaderSpec == LoaderInit /\ [][LoaderNext]_vars

(* ======================== properties of train() ======================== *)

\* C1 (as stated): a finished non-evaluate-only train() has made exactly
\* floor(max_iters / iters_per_inner_epoch) loop passes, the value of the
\* max_epoch property.
C1_PassesEqualMaxEpoch ==
    \A p \in Procs :
        (pc[p] = "done" /\ ~evaluate_only) => passes[p] = max_epoch(p)

\* C2 (as stated): on the checkpoint-writing process a validation step that
\* reports an aggregate metric writes the best checkpoint if and only if its
\* split is "val" and the metric is strictly greater than every "val" metric
\* received earlier in the run (so the first "val" metric always does).
C2_BestIffExceedsEarlier ==
    [][\A p \in Procs :
          (/\ is_main_process(p)
           /\ EvalEpoch(p)
           /\ ~val_log'[p].is_none
           /\ val_log'[p].has_agg)
          => ((/\ Len(saved') = Len(saved) + 1
               /\ saved'[Len(saved')].is_best)
              <=> (/\ valid_splits[split_idx[p]] = "val"
                   /\ \A m \in valTop[p] : val_log'[p].agg_metrics > m))]_vars

\* C3 (as stated): in evaluate-only mode no process makes more than one loop
\* pass, none enters the barrier or trains, and no checkpoint is written.
C3_EvaluateOnlyWritesNothing ==
    evaluate_only =>
        /\ \A p \in Procs :
              passes[p] <= 1 /\ barriers[p] = 0 /\ trained[p] = 0
        /\ saved = <<>>

\* C4 (as stated): on every process, a validation result that is a dict
\* without "agg_metrics" ends the process with the assertion error.
C4_MissingAggIsFatal ==
    \A p \in Procs :
        (~val_log[p].is_none /\ ~val_log[p].has_agg) => pc[p] = "failed"

\* C5: with no validation split configured, the writes made are exactly one
\* non-best checkpoint per finished inner epoch of the main process, in
\* order, each labelled with that epoch's end iteration count and written
\* right after the epoch's training; evaluate-only mode writes nothing.
C5_NoSplitCheckpoints ==
    valid_splits = <<>> =>
        \A p \in Procs : is_main_process(p) =>
            IF evaluate_only
            THEN saved = <<>>
            ELSE LET n == IF pc[p] = "no_split"
                          THEN passes[p] - 1 ELSE passes[p]
                 IN  /\ Len(saved) = n
                     /\ \A i \in 1 .. n :
                           saved[i] = [iters |-> i * iters_per_inner_epoch[p],
                                       is_best |-> FALSE, rank |-> p]
                     /\ (n > 0 /\ n = passes[p]) =>
                           /\ log[p][1] =
                                Call("train_iters", "-", start_iters[p], FALSE)
                           /\ log[p][2] =
                                Call("save_checkpoint", "-", end_iters(p), FALSE)

C5_Witness ==
    /\ valid_splits = <<>>
    /\ ~evaluate_only
    /\ pc[0] = "done"
    /\ Len(saved) = 2

\* C6: when max_iters or iters_per_inner_epoch is configured as 0, as a
\* negative number, or not at all, every constructor call fails and nothing
\* of train() ever happens.
C6_BadConfigFailsInConstructor ==
    LET bad(entry) == ~entry.present \/ entry.halves <= 0
    IN  (bad(run_cfg.max_iters) \/ bad(run_cfg.iters_per_inner_epoch)) =>
            /\ saved = <<>>
            /\ \A p \in Procs :
                  /\ pc[p] \in {"new", "ctor_failed"}
                  /\ passes[p] = 0 /\ trained[p] = 0 /\ barriers[p] = 0
                  /\ evals[p] = 0 /\ log[p] = <<>>

C6_Witness ==
    /\ run_cfg.max_iters = CfgEntry(TRUE, 2)
    /\ run_cfg.iters_per_inner_epoch = CfgEntry(TRUE, 0)
    /\ \A p \in Procs : pc[p] = "ctor_failed"

\* the number of eval_epoch calls among the first i calls of a pass
RECURSIVE ValidatedBy(_, _)
ValidatedBy(calls, i) ==
    IF i = 0 THEN 0
    ELSE ValidatedBy(calls, i - 1) + (IF calls[i].op = "eval_epoch" THEN 1 ELSE 0)

\* C7 (as stated): within a pass no checkpoint is saved before every
\* configured split has been validated, and no split is validated before the
\* pass's training.
C7_CheckpointAfterAllValidations ==
    \A p \in Procs : \A i \in DOMAIN log[p] :
        /\ log[p][i].op = "save_checkpoint" =>
              ValidatedBy(log[p], i) = Len(valid_splits)
        /\ (log[p][i].op = "eval_epoch" /\ ~evaluate_only) =>
              \E j \in 1 .. (i - 1) : log[p][j].op = "train_iters"

\* C7 (amended): within a pass the training comes first, the configured
\* splits are then validated in their configured order, a best checkpoint is
\* saved directly after the "val" validation that triggered it (later splits
\* may still be pending), and a non-best checkpoint is saved only when no
\* split is configured, directly after the training.
C7_OrderWithinPass ==
    \A p \in Procs : \A i \in DOMAIN log[p] :
        LET e == log[p][i]
        IN  /\ e.op = "train_iters" => i = 1
            /\ ~evaluate_only => log[p][1].op = "train_iters"
            /\ e.op = "eval_epoch" =>
                  /\ ValidatedBy(log[p], i) <= Len(valid_splits)
                  /\ e.split = valid_splits[ValidatedBy(log[p], i)]
            /\ (e.op = "save_checkpoint" /\ e.best) =>
                  /\ i > 1
                  /\ log[p][i - 1] = Call("eval_epoch", "val", e.iters, FALSE)
            /\ (e.op = "save_checkpoint" /\ ~e.best) =>
                  valid_splits = <<>> /\ i = 2

C7_Witness ==
    \E p \in Procs :
        /\ Len(log[p]) >= 4
        /\ log[p][1].op = "train_iters"
        /\ log[p][3].op = "save_checkpoint"
        /\ log[p][4].op = "eval_epoch"

C9_FinalEvaluationOnce ==
    \A p \in Procs :
        /\ evals[p] = (IF pc[p] = "done" THEN 1 ELSE 0)
        /\ \A i \in DOMAIN log[p] :
              log[p][i].op = "evaluate" => i = Len(log[p])
        /\ pc[p] = "done" =>
              /\ log[p] # <<>>
              /\ log[p][Len(log[p])].op = "evaluate"
              /\ IF evaluate_only
                 THEN passes[p] = 1
                 ELSE end_iters(p) >= max_iters[p]

C9_Witness ==
    \E p \in Procs :
        /\ ~evaluate_only
        /\ pc[p] = "done"
        /\ passes[p] = 2
        /\ evals[p] = 1

\* C10: every checkpoint file is written by the one main process: on any
\* other process save_checkpoint writes nothing, and the best-metric
\* bookkeeping (best_agg_metric, best_iters, the "best_iters" entry of
\* val_log) is never touched.
C10_OnlyMainProcessWrites ==
    /\ Cardinality({p \in Procs : is_main_process(p)}) = 1
    /\ \A i \in DOMAIN saved : is_main_process(saved[i].rank)
    /\ \A p \in Procs : ~is_main_process(p) =>
          /\ best_agg_metric[p] = 0
          /\ best_iters[p] = 0
          /\ ~val_log[p].has_best_iters

C10_Witness ==
    \E p \in Procs :
        /\ ~is_main_process(p)
        /\ \E i \in DOMAIN log[p] : log[p][i].op = "save_checkpoint"
        /\ saved # <<>>

\* C11 (as stated): on every process no step lowers best_agg_metric, and
\* whenever a process receives a "val" metric, best_agg_metric is afterwards
\* at least that metric (hence, never decreasing, at least every "val"
\* metric the process has received so far).
C11_BestBoundsObservedEverywhere ==
    [][\A p \in Procs :
          /\ best_agg_metric'[p] >= best_agg_metric[p]
          /\ (/\ EvalEpoch(p)
              /\ valid_splits[split_idx[p]] = "val"
              /\ val_log'[p].has_agg)
             => best_agg_metric'[p] >= val_log'[p].agg_metrics]_vars

\* C11 (amended): on every process no step lowers best_agg_metric; on the
\* main process, which alone keeps the best-metric bookkeeping, it is after
\* every step at least every "val" metric received so far.
C11_BestMonotone ==
    [][\A p \in Procs :
          /\ best_agg_metric'[p] >= best_agg_metric[p]
          /\ is_main_process(p) =>
                /\ \A m \in valTop'[p] : best_agg_metric'[p] >= m
                /\ (/\ EvalEpoch(p)
                    /\ valid_splits[split_idx[p]] = "val"
                    /\ val_log'[p].has_agg)
                   => /\ best_agg_metric'[p] >= val_log'[p].agg_metrics
                      /\ \E m \in valTop'[p] : m >= val_log'[p].agg_metrics]_vars

C11_Witness ==
    \E p \in Procs :
        /\ is_main_process(p)
        /\ best_agg_metric[p] = 1
        /\ ~val_log[p].is_none /\ val_log[p].has_agg
        /\ val_log[p].agg_metrics < 1
        /\ valid_splits = <<"val">>

\* the files of output_dir: the names written so far
Files == {save_to(saved[i].iters, saved[i].is_best) : i \in DOMAIN saved}

\* C12: a write made by a step of process p records the end iteration count
\* start_iters + iters_per_inner_epoch of p's pass and goes to
\* checkpoint_best.pth when is_best, else to checkpoint_<iters>.pth; two
\* non-best writes never share a file, a non-best write never goes to the
\* best file, and no step removes a write or a file.
C12_CheckpointRecordsAndPaths ==
    [][/\ Len(saved') >= Len(saved)
       /\ SubSeq(saved', 1, Len(saved)) = saved
       /\ Files \subseteq Files'
       /\ \A i \in (Len(saved) + 1) .. Len(saved') :
             LET w == saved'[i]
             IN  /\ w.iters = start_iters[w.rank] + iters_per_inner_epoch[w.rank]
                 /\ save_to(w.iters, w.is_best) =
                       IF w.is_best THEN "checkpoint_best.pth"
                       ELSE "checkpoint_" \o ToString(w.iters) \o ".pth"
                 /\ \A j \in 1 .. Len(saved) :
                       (save_to(saved[j].iters, saved[j].is_best)
                          = save_to(w.iters, w.is_best))
                       => (saved[j].is_best /\ w.is_best)]_vars

C12_Witness ==
    /\ Len(saved) = 2
    /\ ~saved[1].is_best /\ ~saved[2].is_best
    /\ Files = {"checkpoint_1.pth", "checkpoint_2.pth"}

\* C14: outside evaluate-only mode every pass makes exactly one train_iters
\* call, as its first call, and the k-th pass (k = 0, 1, ...) makes it with
\* start offset k * iters_per_inner_epoch, the width being the constructed
\* iters_per_inner_epoch; in evaluate-only mode train_iters is never called.
C14_TrainedSpans ==
    \A p \in Procs :
        /\ evaluate_only =>
              /\ trained[p] = 0
              /\ \A i \in DOMAIN log[p] : log[p][i].op # "train_iters"
        /\ ~evaluate_only =>
              /\ trained[p] = passes[p]
              /\ passes[p] > 0 =>
                    /\ start_iters[p] = (passes[p] - 1) * iters_per_inner_epoch[p]
                    /\ iters_per_inner_epoch[p] =
                          py_int(cfg_get(run_cfg.iters_per_inner_epoch, -1))
                    /\ log[p][1] =
                          Call("train_iters", "-", start_iters[p], FALSE)
                    /\ \A i \in DOMAIN log[p] :
                          log[p][i].op = "train_iters" => i = 1

C14_Witness ==
    \E p \in Procs :
        /\ ~evaluate_only
        /\ passes[p] = 2
        /\ trained[p] = 2
        /\ start_iters[p] = iters_per_inner_epoch[p]
        /\ pc[p] = "done"

\* C15: a validation step on a split other than "val" changes neither
\* best_agg_metric nor best_iters and writes no checkpoint, whatever it
\* returns; it only records the call and the returned val_log (annotated
\* with the unchanged best_iters on the main process).
C15_OtherSplitsLeaveBest ==
    [][\A p \in Procs :
          (EvalEpoch(p) /\ valid_splits[split_idx[p]] # "val") =>
              /\ best_agg_metric' = best_agg_metric
              /\ best_iters' = best_iters
              /\ saved' = saved
              /\ val_log'[p].has_best_iters =>
                    val_log'[p].best_iters = best_iters[p]]_vars

C15_Witness ==
    \E p \in Procs :
        /\ is_main_process(p)
        /\ log[p] # <<>>
        /\ log[p][Len(log[p])] = Call("eval_epoch", "test", end_iters(p), FALSE)
        /\ val_log[p].has_agg
        /\ val_log[p].has_best_iters
        /\ val_log[p].agg_metrics > best_agg_metric[p]

\* C17 (as stated): no process waits in the barrier of a pass that another
\* process can no longer reach because it stopped with an error.
C17_NoProcessStranded ==
    \A p, q \in Procs :
        pc[p] = "barrier" => ~(pc[q] = "failed" /\ barriers[q] < barriers[p])

\* C18 (as stated): the end iteration count of every pass begun, every
\* iteration count recorded in a checkpoint and the number of iterations
\* trained are at most max_iters.
C18_BudgetNeverOverrun ==
    /\ \A p \in Procs :
          passes[p] > 0 =>
              /\ end_iters(p) <= max_iters[p]
              /\ trained[p] * iters_per_inner_epoch[p] <= max_iters[p]
              /\ \A i \in DOMAIN log[p] : log[p][i].iters <= max_iters[p]
    /\ \A i \in DOMAIN saved : saved[i].iters <= max_iters[saved[i].rank]

\* C13: under fair scheduling every process eventually stops: its
\* constructor fails, or its train() returns or raises, or it is left in a
\* barrier call that cannot return because another process has raised; and
\* whenever the for statement starts a further pass the start offset grows
\* by exactly iters_per_inner_epoch, staying below max_iters, and in
\* evaluate-only mode no further pass is started.
C13_TrainTerminates ==
    /\ <>(\A p \in Procs :
            \/ pc[p] \in {"ctor_failed", "done", "failed"}
            \/ pc[p] = "barrier" /\ \E q \in Procs : pc[q] = "failed")
    /\ [][\A p \in Procs :
             (passes[p] > 0 /\ passes'[p] = passes[p] + 1) =>
                 /\ ~evaluate_only
                 /\ start_iters'[p] = start_iters[p] + iters_per_inner_epoch[p]
                 /\ start_iters'[p] > start_iters[p]
                 /\ start_iters'[p] < max_iters[p]]_vars

C13_Witness ==
    \E p \in Procs :
        /\ pc[p] = "done"
        /\ ~evaluate_only
        /\ passes[p] = 2
        /\ start_iters[p] = iters_per_inner_epoch[p]

\* C16: with use_datapipe the first read of dataloaders creates exactly one
\* loader per dataset split, in sorted order of the split names, with the
\* training batch size for "train" and the evaluation batch size otherwise,
\* and stores them keyed by split name; every read returns that mapping and
\* later reads create nothing.  Without use_datapipe every read returns the
\* base class's loaders and nothing is created or stored.
C16_LoadersBuiltOnce ==
    LET l == loaders
        expected(split) ==
            DataLoader(split,
                       IF split = "train" THEN l.batch_size_train
                       ELSE l.batch_size_eval,
                       l.num_workers)
    IN  IF l.use_datapipe
        THEN IF l.accesses = 0
             THEN l.is_none /\ l.created = <<>> /\ l.returned = "nothing"
             ELSE /\ ~l.is_none
                  /\ l.returned = "pipeline"
                  /\ l.dataloaders = {<<k, expected(k)>> : k \in l.datasets}
                  /\ Len(l.created) = Cardinality(l.datasets)
                  /\ {l.created[i] : i \in DOMAIN l.created}
                        = {expected(k) : k \in l.datasets}
        ELSE /\ l.is_none /\ l.created = <<>> /\ l.dataloaders = {}
             /\ l.returned = (IF l.accesses = 0 THEN "nothing" ELSE "base")

C16_Witness ==
    /\ loaders.use_datapipe
    /\ loaders.accesses = 2
    /\ loaders.datasets = DatasetNames
    /\ loaders.batch_size_train # loaders.batch_size_eval
    /\ Len(loaders.created) = 3

\* the most recent best checkpoint among the writes made, if any
LastBest ==
    LET idx == {i \in DOMAIN saved : saved[i].is_best}
    IN  IF idx = {} THEN {}
        ELSE {saved[CHOOSE i \in idx : \A j \in idx : j <= i]}

====
